---- MODULE Spec2Model ----
(* Model of homework.py: the polling loop of main() and the functions it   *)
(* calls (check_tokens, get_api_answer, check_response, parse_status,      *)
(* send_message), with the exception hierarchy of exceptions.py.           *)
(*                                                                         *)
(* Python values are tagged records: [t |-> type name, ...payload].        *)
(* Russian string literals are transliterated to ASCII.                    *)
EXTENDS Integers, Sequences, FiniteSets, TLC

(***************************************************************************)
(* Bounds of the input domains.                                            *)
(***************************************************************************)
\* current_date values and start times range over 0..MaxDate
MaxDate == 1
\* the homeworks list of a response has at most MaxHomeworks entries
MaxHomeworks == 2

(***************************************************************************)
(* Python values.                                                          *)
(***************************************************************************)
None == [t |-> "NoneType"]
PyInt(i) == [t |-> "int", i |-> i]
PyStr(s) == [t |-> "str", s |-> s]
PyList(l) == [t |-> "list", l |-> l]
PyDict(d) == [t |-> "dict", d |-> d]
\* a local name that is not bound yet
Unset == [t |-> "unset"]

\* type(x).__name__
TypeName(v) == v.t

\* str(x) as used by the f-strings, for the value types the model feeds it
Str(v) == IF v.t = "str" THEN v.s ELSE "None"

\* dict.get(key): the value, or None when the key is absent
Get(dict, key) == IF key \in DOMAIN dict.d THEN dict.d[key] ELSE None

(***************************************************************************)
(* Results of a call: a returned value or a raised exception, with the     *)
(* number of logger.error lines the call wrote.                            *)
(***************************************************************************)
NoExc == [cls |-> "", text |-> ""]
Exc(cls, text) == [cls |-> cls, text |-> text]
Return(v) == [ok |-> TRUE, val |-> v, exc |-> NoExc, logs |-> 0]
Raise(cls, text, logs) == [ok |-> FALSE, val |-> Unset, exc |-> Exc(cls, text), logs |-> logs]

\* exceptions.py: the classes derived from NotForSend
NotForSend == {"NotForSend", "TelegramError", "EmptyHomeworksError"}
\* variant: TelegramError derived from Exception instead of NotForSend
IsNotForSend_OnlyEmpty(e) == e.cls \in {"NotForSend", "EmptyHomeworksError"}
\* variant: EmptyHomeworksError derived from Exception instead of NotForSend
IsNotForSend_OnlyTelegram(e) == e.cls \in {"NotForSend", "TelegramError"}
IsNotForSend(e) == e.cls \in NotForSend

(***************************************************************************)
(* Module constants.                                                       *)
(***************************************************************************)
RETRY_PERIOD == 600

HOMEWORK_VERDICTS ==
    [approved |-> "Rabota proverena: revyueru vsyo ponravilos. Ura!",
     reviewing |-> "Rabota vzyata na proverku revyuerom.",
     rejected |-> "Rabota proverena: u revyuera est zamechaniya."]

\* message texts imported from constants.py
API_REQUEST_FAILURE == "API_REQUEST_FAILURE"
INVALID_RESPONSE_TYPE == "INVALID_RESPONSE_TYPE"
MISSING_CURRENT_DATE_KEY == "MISSING_CURRENT_DATE_KEY"
MISSING_HOMEWORK_NAME == "MISSING_HOMEWORK_NAME"
MISSING_HOMEWORKS_KEY == "MISSING_HOMEWORKS_KEY"
MISSING_TOKENS == "MISSING_TOKENS"
UNEXPECTED_STATUS == "UNEXPECTED_STATUS"

\* literals of homework.py
EMPTY_HOMEWORKS_TEXT == "Otsutstvuyut novye statusy"
SEND_ERROR_PREFIX == "Oshibka pri otpravke soobshcheniya: "
FAILURE_PREFIX == "Sboy v rabote programmy: "
STATUS_PREFIX == "Izmenilsya status proverki raboty \""

TokenNames == {"PRACTICUM_TOKEN", "TELEGRAM_TOKEN", "TELEGRAM_CHAT_ID"}

(***************************************************************************)
(* Pure functions of homework.py.                                          *)
(***************************************************************************)
\* variant: any() in place of all()
check_tokens_Any(env) == \E name \in TokenNames : name \in env

\* check_tokens(): all three environment variables are set (truthy)
check_tokens(env) == \A name \in TokenNames : name \in env

\* get_api_answer(timestamp), given what the network does with the request
get_api_answer(net) ==
    IF net.kind = "RequestException"
    THEN Raise("APINotFoundError", API_REQUEST_FAILURE, 1)
    ELSE IF net.status_code # 200
    THEN Raise("APINotFoundError", API_REQUEST_FAILURE, 1)
    ELSE IF net.body = Unset
    THEN Raise("JSONDecodeError", "Expecting value: line 1 column 1 (char 0)", 0)
    ELSE Return(net.body)

\* variant: the homeworks key is read without the presence check
check_response_NoKeyCheck(response) ==
    IF TypeName(response) # "dict"
    THEN Raise("TypeError",
               INVALID_RESPONSE_TYPE \o " (" \o TypeName(response) \o ")", 1)
    ELSE IF TypeName(Get(response, "homeworks")) # "list"
    THEN Raise("TypeError",
               INVALID_RESPONSE_TYPE \o " ("
                   \o TypeName(Get(response, "homeworks")) \o ")", 1)
    ELSE IF "current_date" \notin DOMAIN response.d
    THEN Raise("CurrentDateNotFoundError", MISSING_CURRENT_DATE_KEY, 1)
    ELSE Return(response)

\* variant: both key checks come before the type check of homeworks
check_response_KeysFirst(response) ==
    IF TypeName(response) # "dict"
    THEN Raise("TypeError",
               INVALID_RESPONSE_TYPE \o " (" \o TypeName(response) \o ")", 1)
    ELSE IF "homeworks" \notin DOMAIN response.d
    THEN Raise("HomeworksNotFoundError", MISSING_HOMEWORKS_KEY, 1)
    ELSE IF "current_date" \notin DOMAIN response.d
    THEN Raise("CurrentDateNotFoundError", MISSING_CURRENT_DATE_KEY, 1)
    ELSE IF TypeName(Get(response, "homeworks")) # "list"
    THEN Raise("TypeError",
               INVALID_RESPONSE_TYPE \o " ("
                   \o TypeName(Get(response, "homeworks")) \o ")", 1)
    ELSE Return(response)

check_response(response) ==
    IF TypeName(response) # "dict"
    THEN Raise("TypeError",
               INVALID_RESPONSE_TYPE \o " (" \o TypeName(response) \o ")", 1)
    ELSE IF "homeworks" \notin DOMAIN response.d
    THEN Raise("HomeworksNotFoundError", MISSING_HOMEWORKS_KEY, 1)
    ELSE IF TypeName(Get(response, "homeworks")) # "list"
    THEN Raise("TypeError",
               INVALID_RESPONSE_TYPE \o " ("
                   \o TypeName(Get(response, "homeworks")) \o ")", 1)
    ELSE IF "current_date" \notin DOMAIN response.d
    THEN Raise("CurrentDateNotFoundError", MISSING_CURRENT_DATE_KEY, 1)
    ELSE Return(response)

\* status not in HOMEWORK_VERDICTS
StatusKnown(status) ==
    /\ TypeName(status) = "str"
    /\ status.s \in DOMAIN HOMEWORK_VERDICTS

\* variant: the status is looked up before homework_name is checked
parse_status_StatusFirst(homework) ==
    IF TypeName(homework) # "dict"
    THEN Raise("TypeError",
               "argument of type '" \o TypeName(homework) \o "' is not iterable", 0)
    ELSE IF ~StatusKnown(Get(homework, "status"))
    THEN Raise("StatusNotFoundError", UNEXPECTED_STATUS, 1)
    ELSE IF "homework_name" \notin DOMAIN homework.d
    THEN Raise("HomeworksNotFoundError", MISSING_HOMEWORK_NAME, 1)
    ELSE Return(STATUS_PREFIX \o Str(Get(homework, "homework_name")) \o "\". "
                    \o HOMEWORK_VERDICTS[Get(homework, "status").s])

parse_status(homework) ==
    IF TypeName(homework) # "dict"
    THEN \* 'homework_name' not in <NoneType or int>
         Raise("TypeError",
               "argument of type '" \o TypeName(homework) \o "' is not iterable", 0)
    ELSE IF "homework_name" \notin DOMAIN homework.d
    THEN Raise("HomeworksNotFoundError", MISSING_HOMEWORK_NAME, 1)
    ELSE IF ~StatusKnown(Get(homework, "status"))
    THEN Raise("StatusNotFoundError", UNEXPECTED_STATUS, 1)
    ELSE Return(STATUS_PREFIX \o Str(Get(homework, "homework_name")) \o "\". "
                    \o HOMEWORK_VERDICTS[Get(homework, "status").s])


\* send_message(bot, message), given what bot.send_message does:
\* tg = "" when the message is delivered, else the telegram error text
send_message(message, tg) ==
    IF tg = ""
    THEN Return(None)
    ELSE Raise("TelegramError", SEND_ERROR_PREFIX \o tg, 0)

(***************************************************************************)
(* Inputs: the environment, the API's answers, the bot's behaviour.        *)
(***************************************************************************)
SeqsUpTo(S, n) == UNION {[1..k -> S] : k \in 0..n}

Names == {"hw1"}
Statuses == {"approved", "reviewing", "rejected", "unknown"}

\* homework records with any subset of the keys homework_name and status
HomeworkDicts ==
    {PyDict([k \in dom |-> IF k = "homework_name" THEN PyStr(n) ELSE PyStr(s)]) :
        dom \in SUBSET {"homework_name", "status"}, n \in Names, s \in Statuses}

\* the first entry of the list: a record, or a JSON null
FirstEntries == HomeworkDicts \cup {None}

\* the entries after the first
OlderEntries ==
    {PyDict([homework_name |-> PyStr("hw0"), status |-> PyStr("rejected")]),
     PyDict([status |-> PyStr("unknown")])}

HomeworkLists ==
    {PyList(<<>>)} \cup
    {PyList(<<h>> \o older) :
        h \in FirstEntries, older \in SeqsUpTo(OlderEntries, MaxHomeworks - 1)}

HomeworksValues == HomeworkLists \cup {PyStr("hw1"), PyDict(<<>>)}
CurrentDateValues == {PyInt(i) : i \in 0..MaxDate} \cup {PyStr("2024-01-01")}

\* decoded JSON bodies
Responses ==
    {None, PyList(<<>>)} \cup
    {PyDict([k \in dom |-> IF k = "homeworks" THEN h ELSE c]) :
        dom \in SUBSET {"homeworks", "current_date"},
        h \in HomeworksValues, c \in CurrentDateValues}

SomeResponse == PyDict([homeworks |-> PyList(<<>>), current_date |-> PyInt(0)])

\* what the network does with one GET: raises, or answers with a status code
\* and a body (Unset: a body that is not JSON)
NetOutcomes ==
    {[kind |-> "RequestException", status_code |-> 0, body |-> Unset]} \cup
    {[kind |-> "response", status_code |-> 200, body |-> b] :
        b \in Responses \cup {Unset}} \cup
    {[kind |-> "response", status_code |-> c, body |-> b] :
        c \in {404, 500}, b \in {Unset, SomeResponse}}

\* what bot.send_message does: "" delivers, anything else is the error raised
TelegramOutcomes == {"", "Timed out"}

(***************************************************************************)
(* State of main().                                                        *)
(***************************************************************************)
VARIABLES
    env,                  \* names of the environment variables that are set
    pc,                   \* position in main()
    timestamp,            \* local timestamp (the poll cursor)
    last_status_message,  \* local last_status_message
    response,             \* local response
    homeworks,            \* local homeworks
    exc,                  \* exception caught by an except clause of the cycle
    raised,               \* exception propagating out of main()
    from_date,            \* from_date of the latest request
    sends,                \* send_message calls of the cycle: message, kind, ok
    logs,                 \* logger.error / logger.critical lines of the cycle
    sleeps,               \* time.sleep durations since the latest request
    startLast,            \* last_status_message when the cycle started
    prev,                 \* record of the previous cycle
    lastDelivered,        \* text of the latest delivered failure message
    http                  \* what requests.get did in the cycle (Unset: no call)

vars == <<env, pc, timestamp, last_status_message, response, homeworks, exc,
          raised, from_date, sends, logs, sleeps, startLast, prev,
          lastDelivered, http>>

NoCycle == [done |-> FALSE, exc |-> NoExc, raised |-> NoExc, sends |-> <<>>,
            logs |-> 0, startLast |-> "", from_date |-> Unset]

Init ==
    /\ env \in SUBSET TokenNames
    /\ pc = "start"
    /\ timestamp = Unset
    /\ last_status_message = ""
    /\ response = Unset
    /\ homeworks = Unset
    /\ exc = NoExc
    /\ raised = NoExc
    /\ from_date = Unset
    /\ sends = <<>>
    /\ logs = 0
    /\ sleeps = <<>>
    /\ startLast = ""
    /\ prev = NoCycle
    /\ lastDelivered = ""
    /\ http = Unset

\* main(), lines 144-150: token check, then the locals of the loop
CheckTokens ==
    /\ pc = "start"
    /\ IF ~check_tokens(env)
       THEN /\ pc' = "aborted"
            /\ raised' = Exc("TokenNotFoundError", MISSING_TOKENS)
            /\ logs' = logs + 1
            /\ UNCHANGED <<timestamp, last_status_message>>
       ELSE /\ pc' = "try"
            /\ \E now \in 0..MaxDate : timestamp' = PyInt(now)
            /\ last_status_message' = ""
            /\ UNCHANGED <<raised, logs>>
    /\ UNCHANGED <<env, http, response, homeworks, exc, from_date, sends, sleeps,
                   startLast, prev, lastDelivered>>

\* line 154: response = get_api_answer(timestamp)
GetApiAnswer ==
    /\ pc = "try"
    /\ \E net \in NetOutcomes :
         LET r == get_api_answer(net) IN
         /\ http' = net
         /\ logs' = r.logs
         /\ IF r.ok
            THEN /\ response' = r.val
                 /\ exc' = NoExc
                 /\ pc' = "check"
            ELSE /\ exc' = r.exc
                 /\ pc' = "except"
                 /\ UNCHANGED response
    /\ from_date' = timestamp
    /\ sleeps' = <<>>
    /\ startLast' = last_status_message
    /\ UNCHANGED <<env, timestamp, last_status_message, homeworks, raised,
                   sends, prev, lastDelivered>>

\* lines 155-157: homeworks = check_response(response).get('homeworks')
CheckResponse ==
    /\ pc = "check"
    /\ LET r == check_response(response) IN
       /\ logs' = logs + r.logs
       /\ IF r.ok
          THEN /\ homeworks' = Get(r.val, "homeworks")
               /\ pc' = "branch"
               /\ UNCHANGED exc
          ELSE /\ exc' = r.exc
               /\ pc' = "except"
               /\ UNCHANGED homeworks
    /\ UNCHANGED <<env, http, timestamp, last_status_message, response, raised,
                   from_date, sends, sleeps, startLast, prev, lastDelivered>>

\* variant: the cursor is assigned before send_message is called
ParseAndSend_AdvanceFirst ==
    /\ pc = "branch"
    /\ IF homeworks.l = <<>>
       THEN /\ exc' = Exc("EmptyHomeworksError", EMPTY_HOMEWORKS_TEXT)
            /\ pc' = "except"
            /\ UNCHANGED <<sends, logs, timestamp>>
       ELSE LET p == parse_status(homeworks.l[1]) IN
            IF ~p.ok
            THEN /\ exc' = p.exc
                 /\ pc' = "except"
                 /\ logs' = logs + p.logs
                 /\ UNCHANGED <<sends, timestamp>>
            ELSE \E tg \in TelegramOutcomes :
                   LET s == send_message(p.val, tg) IN
                   /\ timestamp' = Get(response, "current_date")
                   /\ sends' = Append(sends, [message |-> p.val,
                                              kind |-> "status", ok |-> s.ok])
                   /\ logs' = logs + p.logs + s.logs
                   /\ IF s.ok
                      THEN pc' = "advance" /\ UNCHANGED exc
                      ELSE pc' = "except" /\ exc' = s.exc
    /\ UNCHANGED <<env, http, last_status_message, response, homeworks,
                   raised, from_date, sleeps, startLast, prev, lastDelivered>>

\* variant: homeworks[-1] is parsed instead of homeworks[0]
ParseAndSend_LastEntry ==
    /\ pc = "branch"
    /\ IF homeworks.l = <<>>
       THEN /\ exc' = Exc("EmptyHomeworksError", EMPTY_HOMEWORKS_TEXT)
            /\ pc' = "except"
            /\ UNCHANGED <<sends, logs>>
       ELSE LET p == parse_status(homeworks.l[Len(homeworks.l)]) IN
            IF ~p.ok
            THEN /\ exc' = p.exc
                 /\ pc' = "except"
                 /\ logs' = logs + p.logs
                 /\ UNCHANGED sends
            ELSE \E tg \in TelegramOutcomes :
                   LET s == send_message(p.val, tg) IN
                   /\ sends' = Append(sends, [message |-> p.val,
                                              kind |-> "status", ok |-> s.ok])
                   /\ logs' = logs + p.logs + s.logs
                   /\ IF s.ok
                      THEN pc' = "advance" /\ UNCHANGED exc
                      ELSE pc' = "except" /\ exc' = s.exc
    /\ UNCHANGED <<env, http, timestamp, last_status_message, response, homeworks,
                   raised, from_date, sleeps, startLast, prev, lastDelivered>>

\* variant: the status message is compared with last_status_message and
\* sent only when it differs
ParseAndSend_Dedup ==
    /\ pc = "branch"
    /\ IF homeworks.l = <<>>
       THEN /\ exc' = Exc("EmptyHomeworksError", EMPTY_HOMEWORKS_TEXT)
            /\ pc' = "except"
            /\ UNCHANGED <<sends, logs, last_status_message>>
       ELSE LET p == parse_status(homeworks.l[1]) IN
            IF ~p.ok
            THEN /\ exc' = p.exc
                 /\ pc' = "except"
                 /\ logs' = logs + p.logs
                 /\ UNCHANGED <<sends, last_status_message>>
            ELSE IF p.val = last_status_message
            THEN /\ pc' = "advance"
                 /\ UNCHANGED <<exc, sends, logs, last_status_message>>
            ELSE \E tg \in TelegramOutcomes :
                   LET s == send_message(p.val, tg) IN
                   /\ sends' = Append(sends, [message |-> p.val,
                                              kind |-> "status", ok |-> s.ok])
                   /\ logs' = logs + p.logs + s.logs
                   /\ IF s.ok
                      THEN /\ pc' = "advance"
                           /\ last_status_message' = p.val
                           /\ UNCHANGED exc
                      ELSE /\ pc' = "except"
                           /\ exc' = s.exc
                           /\ UNCHANGED last_status_message
    /\ UNCHANGED <<env, http, timestamp, response, homeworks,
                   raised, from_date, sleeps, startLast, prev, lastDelivered>>

\* lines 159-163: the empty-list error, or parse_status and send_message
ParseAndSend ==
    /\ pc = "branch"
    /\ IF homeworks.l = <<>>
       THEN /\ exc' = Exc("EmptyHomeworksError", EMPTY_HOMEWORKS_TEXT)
            /\ pc' = "except"
            /\ UNCHANGED <<sends, logs>>
       ELSE LET p == parse_status(homeworks.l[1]) IN
            IF ~p.ok
            THEN /\ exc' = p.exc
                 /\ pc' = "except"
                 /\ logs' = logs + p.logs
                 /\ UNCHANGED sends
            ELSE \E tg \in TelegramOutcomes :
                   LET s == send_message(p.val, tg) IN
                   /\ sends' = Append(sends, [message |-> p.val,
                                              kind |-> "status", ok |-> s.ok])
                   /\ logs' = logs + p.logs + s.logs
                   /\ IF s.ok
                      THEN pc' = "advance" /\ UNCHANGED exc
                      ELSE pc' = "except" /\ exc' = s.exc
    /\ UNCHANGED <<env, http, timestamp, last_status_message, response, homeworks,
                   raised, from_date, sleeps, startLast, prev, lastDelivered>>

\* variant: the cursor is set to the local clock instead of current_date
AdvanceCursor_Now ==
    /\ pc = "advance"
    /\ \E now \in 0..MaxDate : timestamp' = PyInt(now)
    /\ pc' = "finally"
    /\ UNCHANGED <<env, http, last_status_message, response, homeworks, exc, raised,
                   from_date, sends, logs, sleeps, startLast, prev,
                   lastDelivered>>

\* variant: a successful cycle clears last_status_message
AdvanceCursor_ResetLast ==
    /\ pc = "advance"
    /\ timestamp' = Get(response, "current_date")
    /\ last_status_message' = ""
    /\ pc' = "finally"
    /\ UNCHANGED <<env, http, response, homeworks, exc, raised,
                   from_date, sends, logs, sleeps, startLast, prev,
                   lastDelivered>>

\* line 165: timestamp = response.get('current_date')
AdvanceCursor ==
    /\ pc = "advance"
    /\ timestamp' = Get(response, "current_date")
    /\ pc' = "finally"
    /\ UNCHANGED <<env, http, last_status_message, response, homeworks, exc, raised,
                   from_date, sends, logs, sleeps, startLast, prev,
                   lastDelivered>>

\* lines 167-168: except NotForSend
ExceptNotForSend ==
    /\ pc = "except"
    /\ IsNotForSend(exc)
    /\ logs' = logs + 1
    /\ pc' = "finally"
    /\ UNCHANGED <<env, http, timestamp, last_status_message, response, homeworks,
                   exc, raised, from_date, sends, sleeps, startLast, prev,
                   lastDelivered>>

\* variant: the sent message is not remembered in last_status_message
ExceptException_NoRemember ==
    /\ pc = "except"
    /\ ~IsNotForSend(exc)
    /\ LET message == FAILURE_PREFIX \o exc.text IN
       IF message # last_status_message
       THEN \E tg \in TelegramOutcomes :
              LET s == send_message(message, tg) IN
              /\ logs' = logs + 1 + s.logs
              /\ sends' = Append(sends, [message |-> message,
                                         kind |-> "failure", ok |-> s.ok])
              /\ IF s.ok
                 THEN /\ lastDelivered' = message
                      /\ UNCHANGED <<raised, last_status_message>>
                 ELSE /\ raised' = s.exc
                      /\ UNCHANGED <<last_status_message, lastDelivered>>
       ELSE UNCHANGED <<logs, sends, last_status_message, lastDelivered,
                        raised>>
    /\ pc' = "finally"
    /\ UNCHANGED <<env, http, timestamp, response, homeworks, exc, from_date,
                   sleeps, startLast, prev>>

\* variant: the error text, not the rendered message, is compared with
\* last_status_message
ExceptException_CompareError ==
    /\ pc = "except"
    /\ ~IsNotForSend(exc)
    /\ LET message == FAILURE_PREFIX \o exc.text IN
       IF exc.text # last_status_message
       THEN \E tg \in TelegramOutcomes :
              LET s == send_message(message, tg) IN
              /\ logs' = logs + 1 + s.logs
              /\ sends' = Append(sends, [message |-> message,
                                         kind |-> "failure", ok |-> s.ok])
              /\ IF s.ok
                 THEN /\ last_status_message' = message
                      /\ lastDelivered' = message
                      /\ UNCHANGED raised
                 ELSE /\ raised' = s.exc
                      /\ UNCHANGED <<last_status_message, lastDelivered>>
       ELSE UNCHANGED <<logs, sends, last_status_message, lastDelivered,
                        raised>>
    /\ pc' = "finally"
    /\ UNCHANGED <<env, http, timestamp, response, homeworks, exc, from_date,
                   sleeps, startLast, prev>>

\* lines 170-176: except Exception
ExceptException ==
    /\ pc = "except"
    /\ ~IsNotForSend(exc)
    /\ LET message == FAILURE_PREFIX \o exc.text IN
       IF message # last_status_message
       THEN \E tg \in TelegramOutcomes :
              LET s == send_message(message, tg) IN
              /\ logs' = logs + 1 + s.logs
              /\ sends' = Append(sends, [message |-> message,
                                         kind |-> "failure", ok |-> s.ok])
              /\ IF s.ok
                 THEN /\ last_status_message' = message
                      /\ lastDelivered' = message
                      /\ UNCHANGED raised
                 ELSE /\ raised' = s.exc
                      /\ UNCHANGED <<last_status_message, lastDelivered>>
       ELSE UNCHANGED <<logs, sends, last_status_message, lastDelivered,
                        raised>>
    /\ pc' = "finally"
    /\ UNCHANGED <<env, http, timestamp, response, homeworks, exc, from_date,
                   sleeps, startLast, prev>>

\* variant: the sleep is the last statement of the try body, not a finally
Finally_SleepInTry ==
    /\ pc = "finally"
    /\ sleeps' = IF exc = NoExc THEN Append(sleeps, RETRY_PERIOD) ELSE sleeps
    /\ pc' = IF raised # NoExc THEN "crashed" ELSE "try"
    /\ prev' = [done |-> TRUE, exc |-> exc, raised |-> raised, sends |-> sends,
                logs |-> logs, startLast |-> startLast,
                from_date |-> from_date]
    /\ response' = Unset
    /\ homeworks' = Unset
    /\ exc' = NoExc
    /\ sends' = <<>>
    /\ logs' = 0
    /\ http' = Unset
    /\ UNCHANGED <<env, timestamp, last_status_message, raised, from_date,
                   startLast, lastDelivered>>

\* lines 178-179: finally: time.sleep(RETRY_PERIOD); then the next iteration,
\* or the exception raised inside the except clause leaves main()
Finally ==
    /\ pc = "finally"
    /\ sleeps' = Append(sleeps, RETRY_PERIOD)
    /\ pc' = IF raised # NoExc THEN "crashed" ELSE "try"
    /\ prev' = [done |-> TRUE, exc |-> exc, raised |-> raised, sends |-> sends,
                logs |-> logs, startLast |-> startLast,
                from_date |-> from_date]
    /\ response' = Unset
    /\ homeworks' = Unset
    /\ exc' = NoExc
    /\ sends' = <<>>
    /\ logs' = 0
    /\ http' = Unset
    /\ UNCHANGED <<env, timestamp, last_status_message, raised, from_date,
                   startLast, lastDelivered>>

Next ==
    \/ CheckTokens
    \/ GetApiAnswer
    \/ CheckResponse
    \/ ParseAndSend
    \/ AdvanceCursor
    \/ ExceptNotForSend
    \/ ExceptException
    \/ Finally

Spec == Init /\ [][Next]_vars

(***************************************************************************)
(* Observations used by the properties.                                    *)
(***************************************************************************)
\* number of delivered messages among the send_message calls of a cycle
Delivered(calls) == Cardinality({i \in 1..Len(calls) : calls[i].ok})

\* the cycle delivered a status notification
StatusDelivered(calls) ==
    \E i \in 1..Len(calls) : calls[i].kind = "status" /\ calls[i].ok

\* the step delivers a failure notification
FailureDeliveredInStep ==
    /\ Len(sends') = Len(sends) + 1
    /\ sends'[Len(sends')].kind = "failure"
    /\ sends'[Len(sends')].ok

\* the cycle in progress and the one before it both failed with one text
SameFailureTwice ==
    /\ pc = "finally"
    /\ prev.done
    /\ exc # NoExc
    /\ prev.exc # NoExc
    /\ exc.text = prev.exc.text

(***************************************************************************)
(* Properties.                                                             *)
(***************************************************************************)

\* C1: once main() is in the polling loop no error terminates it; in
\* particular a send_message failure while sending the failure message does
\* not crash the loop.
C1_LoopNeverTerminates == pc # "crashed"

\* C2 (as stated): when two consecutive cycles fail with the same error text,
\* exactly one notification is sent across the two cycles, wherever the pair
\* is in the run and whatever the kind of failure.
C2_ExactlyOnePerPair ==
    SameFailureTwice => Delivered(prev.sends) + Delivered(sends) = 1

\* C2 (amended): when two consecutive cycles fail with the same error text
\* and the error is one main() notifies (not a NotForSend error), the second
\* cycle calls send_message not at all, and the first one delivers exactly
\* one failure notification when the rendered text differs from the last
\* notified failure message at its start, and calls send_message not at all
\* when it equals it.
C2_AtMostOnePerPair ==
    (SameFailureTwice /\ ~IsNotForSend(exc) /\ ~IsNotForSend(prev.exc)) =>
        /\ sends = <<>>
        /\ IF FAILURE_PREFIX \o exc.text = prev.startLast
           THEN prev.sends = <<>>
           ELSE /\ Len(prev.sends) = 1
                /\ prev.sends[1].ok
                /\ prev.sends[1].message = FAILURE_PREFIX \o exc.text

C2_Witness ==
    /\ SameFailureTwice
    /\ ~IsNotForSend(exc)
    /\ Len(prev.sends) = 1

\* C3: the chat never receives the failure message twice in a row with the
\* same text: every delivered failure notification differs from the failure
\* notification delivered before it.
C3_NoRepeatedFailureText ==
    [][FailureDeliveredInStep =>
          sends'[Len(sends')].message # lastDelivered]_vars

C3_Witness ==
    /\ pc = "finally"
    /\ prev.done
    /\ Len(prev.sends) = 1 /\ prev.sends[1].kind = "failure" /\ prev.sends[1].ok
    /\ Len(sends) = 1 /\ sends[1].kind = "failure" /\ sends[1].ok

\* C4: the cursor is set to the response's current_date exactly in a cycle
\* whose status notification was delivered; a cycle that ends in any error
\* leaves it as it was, and the request after a failed cycle carries the
\* from_date of the failed cycle.
C4_CursorAdvancesOnlyOnSuccess ==
    /\ pc = "finally" =>
          IF StatusDelivered(sends)
          THEN timestamp = Get(response, "current_date")
          ELSE timestamp = from_date
    /\ (prev.done /\ ~StatusDelivered(prev.sends)) =>
          from_date = prev.from_date

C4_Witness ==
    /\ pc = "finally"
    /\ StatusDelivered(sends)
    /\ timestamp # from_date
    /\ prev.done
    /\ ~StatusDelivered(prev.sends)

\* C5: a cycle calls send_message at most once: never a status message and
\* a failure message, never two of either.
C5_AtMostOneSendPerCycle == Len(sends) <= 1 /\ Len(prev.sends) <= 1

C5_Witness ==
    /\ pc = "finally"
    /\ exc.cls = "TelegramError"
    /\ Len(sends) = 1
    /\ sends[1].kind = "status"

\* C6: every iteration ends with exactly one sleep of RETRY_PERIOD, whatever
\* its outcome, so the loop is never at a request without exactly one sleep
\* since the request before it.
C6_OneSleepPerCycle ==
    /\ (pc \in {"try", "crashed"} /\ prev.done) => sleeps = <<RETRY_PERIOD>>
    /\ pc \in {"check", "branch", "advance", "except", "finally"} =>
          sleeps = <<>>

C6_Witness ==
    /\ pc = "try"
    /\ prev.done
    /\ prev.exc # NoExc
    /\ ~IsNotForSend(prev.exc)
    /\ prev.sends = <<>>
    /\ sleeps = <<RETRY_PERIOD>>

\* the response of the cycle is a record without the homeworks key, and
\* check_response has been applied to it
MissingHomeworksChecked ==
    /\ pc \in {"except", "finally"}
    /\ response # Unset
    /\ TypeName(response) = "dict"
    /\ "homeworks" \notin DOMAIN response.d

\* C7 (as stated): for a record without the homeworks key check_response
\* fails with HomeworksNotFoundError and send_message is not called in that
\* cycle.
C7_MissingKeyNeverNotifies ==
    MissingHomeworksChecked =>
        /\ exc.cls = "HomeworksNotFoundError"
        /\ sends = <<>>

\* C7 (amended): for a record without the homeworks key check_response fails
\* with HomeworksNotFoundError, and in that cycle no status notification is
\* sent; the only send_message call is that of the failure message built
\* from the error, made exactly when it differs from the last notified one.
C7_MissingKeyOnlyFailureMessage ==
    MissingHomeworksChecked =>
        /\ exc = Exc("HomeworksNotFoundError", MISSING_HOMEWORKS_KEY)
        /\ homeworks = Unset
        /\ \A i \in 1..Len(sends) :
              /\ sends[i].kind = "failure"
              /\ sends[i].message = FAILURE_PREFIX \o MISSING_HOMEWORKS_KEY
        /\ pc = "finally" =>
              (sends = <<>> <=>
                  startLast = FAILURE_PREFIX \o MISSING_HOMEWORKS_KEY)

C7_Witness ==
    /\ MissingHomeworksChecked
    /\ pc = "finally"
    /\ Len(sends) = 1

\* C8: the poll cursor is an integer in every reachable state of the loop.
C8_CursorIsInteger ==
    pc \notin {"start", "aborted"} => TypeName(timestamp) = "int"

\* C9: check_response reports the first failing check in the order: body
\* not a record (type error), homeworks absent (HomeworksNotFoundError),
\* homeworks not a list (type error), current_date absent
\* (CurrentDateNotFoundError); otherwise it returns the record unchanged.
C9_CheckOrder ==
    (response # Unset /\ pc # "check") =>
        LET failed == pc \in {"except", "finally"} /\ homeworks = Unset
            isDict == TypeName(response) = "dict" IN
        IF ~isDict
        THEN failed /\ exc.cls = "TypeError"
        ELSE IF "homeworks" \notin DOMAIN response.d
        THEN failed /\ exc.cls = "HomeworksNotFoundError"
        ELSE IF response.d["homeworks"].t # "list"
        THEN failed /\ exc.cls = "TypeError"
        ELSE IF "current_date" \notin DOMAIN response.d
        THEN failed /\ exc.cls = "CurrentDateNotFoundError"
        ELSE homeworks = response.d["homeworks"]

C9_Witness ==
    /\ pc = "except"
    /\ response # Unset
    /\ TypeName(response) = "dict"
    /\ DOMAIN response.d = {"homeworks"}
    /\ response.d["homeworks"].t = "str"
    /\ exc.cls = "TypeError"

\* the first entry of the list is a record and parse_status was applied
HomeworkParsed ==
    /\ pc \in {"advance", "except", "finally"}
    /\ homeworks # Unset
    /\ homeworks.l # <<>>
    /\ TypeName(homeworks.l[1]) = "dict"

\* C10: parse_status fails with the missing-field error when homework_name
\* is absent, whatever the status; else with the unrecognized-status error
\* when status is absent or not approved, reviewing or rejected; else it
\* returns the fixed sentence with the name and the verdict of the status.
C10_ParseStatus ==
    HomeworkParsed =>
        LET hw == homeworks.l[1].d
            noStatusSend == \A i \in 1..Len(sends) : sends[i].kind # "status"
        IN
        IF "homework_name" \notin DOMAIN hw
        THEN /\ exc = Exc("HomeworksNotFoundError", MISSING_HOMEWORK_NAME)
             /\ noStatusSend
        ELSE IF \/ "status" \notin DOMAIN hw
                \/ hw["status"].s \notin {"approved", "reviewing", "rejected"}
        THEN /\ exc = Exc("StatusNotFoundError", UNEXPECTED_STATUS)
             /\ noStatusSend
        ELSE /\ sends # <<>>
             /\ sends[1].kind = "status"
             /\ sends[1].message =
                  "Izmenilsya status proverki raboty \"" \o hw["homework_name"].s
                  \o "\". " \o
                  (CASE hw["status"].s = "approved" ->
                          "Rabota proverena: revyueru vsyo ponravilos. Ura!"
                     [] hw["status"].s = "reviewing" ->
                          "Rabota vzyata na proverku revyuerom."
                     [] hw["status"].s = "rejected" ->
                          "Rabota proverena: u revyuera est zamechaniya.")

C10_Witness ==
    /\ HomeworkParsed
    /\ pc = "except"
    /\ DOMAIN homeworks.l[1].d = {"status"}
    /\ homeworks.l[1].d["status"].s = "unknown"
    /\ exc.cls = "HomeworksNotFoundError"

\* C11: check_tokens is true exactly when the three secrets are present;
\* with one absent main() aborts with the configuration error before any
\* request, notification or sleep.
C11_TokensGuardTheLoop ==
    /\ pc = "aborted" =>
          /\ env # TokenNames
          /\ raised = Exc("TokenNotFoundError", MISSING_TOKENS)
          /\ http = Unset
          /\ from_date = Unset
          /\ sends = <<>>
          /\ sleeps = <<>>
          /\ ~prev.done
    /\ pc \notin {"start", "aborted"} =>
          \A name \in {"PRACTICUM_TOKEN", "TELEGRAM_TOKEN", "TELEGRAM_CHAT_ID"} :
              name \in env

C11_Witness ==
    /\ pc = "aborted"
    /\ Cardinality(env) = 2

\* the response of the cycle is valid and its homeworks list is empty
EmptyHomeworksSeen ==
    /\ pc \in {"except", "finally"}
    /\ homeworks # Unset
    /\ homeworks.l = <<>>

\* C12: an empty homeworks list raises the empty-result error, which is
\* logged and not notified: no send_message call, cursor and last notified
\* failure message unchanged.
C12_EmptyIsLoggedOnly ==
    EmptyHomeworksSeen =>
        /\ exc = Exc("EmptyHomeworksError", EMPTY_HOMEWORKS_TEXT)
        /\ sends = <<>>
        /\ raised = NoExc
        /\ timestamp = from_date
        /\ last_status_message = startLast
        /\ pc = "finally" => logs = 1

C12_Witness ==
    /\ EmptyHomeworksSeen
    /\ pc = "finally"
    /\ logs = 1
    /\ startLast # ""

\* the request of the cycle raised an I/O error or was answered with a
\* status other than 200
ApiFailed ==
    /\ http # Unset
    /\ \/ http.kind = "RequestException"
       \/ http.status_code # 200

\* C13: get_api_answer returns the decoded body only on HTTP 200 and raises
\* APINotFoundError both on an I/O error and on another status; in main()
\* send_message is then called with the failure message built from the
\* error text, unless it equals the last notified one, and the loop does not
\* terminate.
C13_ApiFailureIsCycleFatalOnly ==
    /\ response # Unset =>
          /\ http.kind = "response"
          /\ http.status_code = 200
          /\ response = http.body
    /\ ApiFailed =>
          /\ response = Unset
          /\ exc = Exc("APINotFoundError", API_REQUEST_FAILURE)
          /\ pc = "finally" =>
                /\ IF startLast = FAILURE_PREFIX \o API_REQUEST_FAILURE
                   THEN sends = <<>>
                   ELSE /\ Len(sends) = 1
                        /\ sends[1].kind = "failure"
                        /\ sends[1].message =
                              FAILURE_PREFIX \o API_REQUEST_FAILURE
                /\ raised = NoExc
    /\ (prev.done /\ prev.exc.cls = "APINotFoundError") => pc # "crashed"

\* the status send of a cycle failed
StatusSendFailed(calls) ==
    /\ calls # <<>>
    /\ calls[1].kind = "status"
    /\ ~calls[1].ok

\* C14: a failed delivery of the status notification is logged only: no
\* failure message is attempted, the last notified failure message and the
\* cursor stay as they were, the loop goes on and the next request asks for
\* the same window.
C14_FailedStatusSendIsLoggedOnly ==
    /\ (pc = "finally" /\ StatusSendFailed(sends)) =>
          /\ Len(sends) = 1
          /\ exc.cls = "TelegramError"
          /\ logs = 1
          /\ raised = NoExc
          /\ last_status_message = startLast
          /\ timestamp = from_date
    /\ (prev.done /\ StatusSendFailed(prev.sends)) =>
          /\ pc # "crashed"
          /\ from_date = prev.from_date

C14_Witness ==
    /\ prev.done
    /\ StatusSendFailed(prev.sends)
    /\ pc = "finally"
    /\ StatusDelivered(sends)
    /\ sends[1].message = prev.sends[1].message
    /\ timestamp # from_date

\* the response of the cycle is valid, its list is not empty, and the
\* statements after check_response have run
NonEmptyHandled ==
    /\ pc \in {"advance", "except", "finally"}
    /\ homeworks # Unset
    /\ homeworks.l # <<>>

\* a record with homework_name and a status of the catalog
WellFormed(hw) ==
    /\ hw.t = "dict"
    /\ "homework_name" \in DOMAIN hw.d
    /\ "status" \in DOMAIN hw.d
    /\ hw.d["status"].s \in {"approved", "reviewing", "rejected"}

\* the notification text of a well-formed record
ExpectedStatusMessage(hw) ==
    "Izmenilsya status proverki raboty \"" \o hw.d["homework_name"].s
    \o "\". " \o
    (CASE hw.d["status"].s = "approved" ->
            "Rabota proverena: revyueru vsyo ponravilos. Ura!"
       [] hw.d["status"].s = "reviewing" ->
            "Rabota vzyata na proverku revyuerom."
       [] hw.d["status"].s = "rejected" ->
            "Rabota proverena: u revyuera est zamechaniya.")

\* C15: with a non-empty list the notification and the outcome of the cycle
\* are those of homeworks[0] alone: a well-formed first entry is sent and,
\* once delivered, the cursor advances to current_date; a malformed first
\* entry gives its error and no status send; later entries play no part.
C15_OnlyFirstEntry ==
    NonEmptyHandled =>
        LET first == homeworks.l[1] IN
        IF WellFormed(first)
        THEN /\ sends # <<>>
             /\ sends[1].kind = "status"
             /\ sends[1].message = ExpectedStatusMessage(first)
             /\ IF sends[1].ok
                THEN /\ exc = NoExc
                     /\ Len(sends) = 1
                     /\ pc = "finally" =>
                           timestamp = response.d["current_date"]
                ELSE exc.cls = "TelegramError"
        ELSE /\ exc.cls \in {"TypeError", "HomeworksNotFoundError",
                             "StatusNotFoundError"}
             /\ \A i \in 1..Len(sends) : sends[i].kind = "failure"

C15_Witness ==
    /\ NonEmptyHandled
    /\ pc = "finally"
    /\ Len(homeworks.l) >= 2
    /\ WellFormed(homeworks.l[1])
    /\ ~WellFormed(homeworks.l[2])
    /\ sends[1].ok
    /\ timestamp # from_date

\* C16: last_status_message changes only in a step that delivers a failure
\* notification with a new text, and then equals that text; so a failure
\* whose rendered text equals it is not sent again, also after successful
\* cycles in between.
C16_LastMessageFrame ==
    /\ [][/\ last_status_message' # last_status_message =>
                /\ FailureDeliveredInStep
                /\ last_status_message' = sends'[Len(sends')].message
          /\ FailureDeliveredInStep =>
                /\ last_status_message' = sends'[Len(sends')].message
                /\ last_status_message' # last_status_message]_vars
    /\ [](( /\ pc = "finally"
            /\ exc # NoExc
            /\ ~IsNotForSend(exc)
            /\ FAILURE_PREFIX \o exc.text = startLast) => sends = <<>>)

C16_Witness ==
    /\ pc = "finally"
    /\ prev.done
    /\ StatusDelivered(prev.sends)
    /\ exc # NoExc
    /\ ~IsNotForSend(exc)
    /\ FAILURE_PREFIX \o exc.text = startLast
    /\ sends = <<>>

\* C17: the step that handles a valid response with a well-formed first
\* entry always calls send_message with its status message, whatever
\* last_status_message holds and whatever was sent in earlier cycles.
C17_StatusNeverSuppressed ==
    [][(/\ pc = "branch"
        /\ homeworks.l # <<>>
        /\ WellFormed(homeworks.l[1])) =>
          /\ Len(sends') = Len(sends) + 1
          /\ sends'[Len(sends')].kind = "status"
          /\ sends'[Len(sends')].message =
                ExpectedStatusMessage(homeworks.l[1])]_vars

C17_Witness ==
    /\ pc = "finally"
    /\ prev.done
    /\ StatusDelivered(prev.sends)
    /\ StatusDelivered(sends)
    /\ sends[1].message = prev.sends[1].message
    /\ startLast # ""

====
